---- MODULE Spec2Model ----
(***************************************************************************)
(* Model of src/mydataset/semanticscholar.py: the paginated fetcher        *)
(* search_semantic_scholar (offset loop stepping by batch_size) and the    *)
(* CSV exporter save_papers_to_file.                                       *)
(*                                                                         *)
(* JSON / Python values are tagged records [tag, val]; val is always a     *)
(* TLA+ string so that any two values can be compared:                     *)
(*   tag "absent"  the key is missing from the JSON object                 *)
(*   tag "null"    JSON null / Python None                                 *)
(*   tag "str"     a string, val its text                                  *)
(*   tag "int"     an integer, val its decimal text                        *)
(* Lists of author objects and of references are [tag, items] with tag     *)
(* "absent", "null" or "list".                                             *)
(***************************************************************************)
EXTENDS Integers, Sequences, FiniteSets, TLC

VARIABLES
    max_papers,   \* parameter of search_semantic_scholar
    batch_size,   \* parameter of search_semantic_scholar
    offset,       \* loop variable of  for offset in range(0, max_papers, batch_size)
    papers,       \* the accumulated records (fetcher) / the argument (exporter)
    malformed_at, \* position in the API result set of a malformed entry, -1 if none
    requests,     \* page requests issued so far: [offset, limit, acc]
    responses,    \* what came back for each request: [kind, n, exc, before, kept]
    pc,           \* control position of the running function
    entry,        \* one API result entry being converted
    built,        \* the outcome of converting entry
    file,         \* the destination file on disk: [exists, rows]
    idx,          \* number of rows the exporter has written so far
    report,       \* what the exporter printed: "none", "saved" or "failed"
    failed_at     \* the exporter step that failed, "" when none

vars == <<max_papers, batch_size, offset, papers, malformed_at, requests, responses,
          pc, entry, built, file, idx, report, failed_at>>

\* ------------------------------------------------------------------ bounds
MaxPapers == 3
MaxBatch == 3
MaxPageLen == 4
MaxRefs == 2
MaxAuthors == 2
MaxRows == 2

\* ------------------------------------------------------------- JSON values
Absent == [tag |-> "absent", val |-> ""]
Null == [tag |-> "null", val |-> ""]
Str(s) == [tag |-> "str", val |-> s]
Num(s) == [tag |-> "int", val |-> s]

\* str(x) as an f-string or print renders a value
PyStr(v) == IF v.tag = "null" THEN "None" ELSE v.val

\* dict.get(key, default): the default only when the key is missing
PyGet_NoDefault(slot, default) == IF slot.tag = "absent" THEN Null ELSE slot

PyGet(slot, default) == IF slot.tag = "absent" THEN default ELSE slot

\* sep.join(items) on a sequence of strings
RECURSIVE PyJoin(_, _)
PyJoin(sep, items) ==
    IF Len(items) = 0 THEN ""
    ELSE IF Len(items) = 1 THEN items[1]
    ELSE items[1] \o sep \o PyJoin(sep, Tail(items))

NoList == [tag |-> "absent", items |-> <<>>]
NullList == [tag |-> "null", items |-> <<>>]
List(s) == [tag |-> "list", items |-> s]

\* entry.get("authors", []) / entry.get("references", [])
PyGetList(slot) == IF slot.tag = "absent" THEN List(<<>>) ELSE slot

\* [author["name"] for author in <list>]: the exception it raises, "" if none
NamesExc(lst) ==
    IF lst.tag = "null" THEN "TypeError"
    ELSE IF \E i \in DOMAIN lst.items : lst.items[i].name.tag = "absent"
         THEN "KeyError"
    ELSE ""

\* the names it yields when it raises nothing
Names(lst) == [i \in DOMAIN lst.items |-> lst.items[i].name]

\* ", ".join(...) raises TypeError on an item that is not a string
JoinExc(names) ==
    IF \E i \in DOMAIN names : names[i].tag # "str" THEN "TypeError" ELSE ""

Texts(names) == [i \in DOMAIN names |-> names[i].val]

\* ------------------------------------------------- reference formatting
\* the exception formatting one reference raises, "" if none
RefExc(ref) ==
    LET a == PyGetList(ref.authors)
    IN  IF NamesExc(a) # "" THEN NamesExc(a) ELSE JoinExc(Names(a))

FormatReference_ZeroBased(i, ref) ==
    "[" \o ToString(i - 1) \o "] "
        \o PyJoin(", ", Texts(Names(PyGetList(ref.authors))))
        \o ", \"" \o PyStr(PyGet(ref.title, Str("No title")))
        \o ",\" " \o PyStr(PyGet(ref.year, Str("Unknown"))) \o "."

\* f"[{idx}] {ref_authors}, \"{ref_title},\" {ref_year}."
FormatReference(i, ref) ==
    "[" \o ToString(i) \o "] "
        \o PyJoin(", ", Texts(Names(PyGetList(ref.authors))))
        \o ", \"" \o PyStr(PyGet(ref.title, Str("No title")))
        \o ",\" " \o PyStr(PyGet(ref.year, Str("Unknown"))) \o "."

\* the first exception raised while the references are formatted in order
RECURSIVE RefsExc(_, _)
RefsExc(refs, i) ==
    IF i > Len(refs) THEN ""
    ELSE IF RefExc(refs[i]) # "" THEN RefExc(refs[i])
    ELSE RefsExc(refs, i + 1)

\* reference_list after the enumerate(references, start=1) loop
ReferenceList(refs) == [i \in DOMAIN refs |-> FormatReference(i, refs[i])]

\* " ".join(reference_list) if reference_list else "No references available"
ReferencesField(refs) ==
    IF Len(refs) > 0 THEN PyJoin(" ", ReferenceList(refs))
    ELSE "No references available"

\* ------------------------------------------------------ one result entry
NoPaper ==
    [title |-> Null, summary |-> Null, authors |-> <<>>, published |-> Null,
     pdf_url |-> Null, references |-> Null]

\* the body of  for entry in data["data"]  up to the construction of paper:
\* [exc, paper], exc the class of the exception raised, "" if none
BuildPaper(e) ==
    LET auth == PyGetList(e.authors)
        refs == PyGetList(e.references)
    IN  IF NamesExc(auth) # "" THEN [exc |-> NamesExc(auth), paper |-> NoPaper]
        ELSE IF refs.tag = "null" THEN [exc |-> "TypeError", paper |-> NoPaper]
        ELSE IF RefsExc(refs.items, 1) # ""
             THEN [exc |-> RefsExc(refs.items, 1), paper |-> NoPaper]
        ELSE [exc |-> "",
              paper |-> [title |-> PyGet(e.title, Str("No title")),
                         summary |-> PyGet(e.abstract, Str("No abstract available")),
                         authors |-> Names(auth),
                         published |-> PyGet(e.year, Str("Unknown")),
                         pdf_url |-> PyGet(e.url, Str("No URL available")),
                         references |-> Str(ReferencesField(refs.items))]]

\* ------------------------------------------------ bounded sets of inputs
SeqsUpTo(S, n) == UNION {[1..k -> S] : k \in 0..n}

Ann == [name |-> Str("Ann")]
Bob == [name |-> Str("Bob")]
AuthorObjs == {Ann, Bob, [name |-> Absent], [name |-> Null]}
AuthorLists ==
    {NoList, NullList} \cup {List(s) : s \in SeqsUpTo(AuthorObjs, MaxAuthors)}

Refs ==
    { [title |-> Str("R1"), authors |-> List(<<Ann, Bob>>), year |-> Num("1999")],
      [title |-> Str("R2"), authors |-> List(<<Bob>>), year |-> Num("2001")],
      [title |-> Absent, authors |-> NoList, year |-> Absent],
      [title |-> Null, authors |-> List(<<>>), year |-> Null],
      [title |-> Str("R5"), authors |-> NullList, year |-> Num("2005")],
      [title |-> Str("R6"), authors |-> List(<<[name |-> Absent]>>), year |-> Absent],
      [title |-> Str("R7"), authors |-> List(<<Ann, [name |-> Null]>>), year |-> Absent] }
RefLists == {NoList, NullList} \cup {List(s) : s \in SeqsUpTo(Refs, MaxRefs)}

Entries ==
    [title : {Absent, Null, Str("T1")},
     abstract : {Absent, Null, Str("A1")},
     year : {Absent, Null, Num("2020")},
     url : {Absent, Null, Str("U1")},
     authors : {List(<<Ann>>)},
     references : {NoList}]
    \cup
    [title : {Str("T1")}, abstract : {Str("A1")}, year : {Num("2020")},
     url : {Absent}, authors : AuthorLists, references : {NoList}]
    \cup
    [title : {Str("T1")}, abstract : {Absent}, year : {Num("2020")},
     url : {Str("U1")}, authors : {NoList, List(<<Ann, Bob>>)},
     references : RefLists]

\* ---------------------------------------------------- exception classes
Parent(c) ==
    CASE c = "HTTPError" -> "RequestException"
      [] c = "ConnectionError" -> "RequestException"
      [] c = "RequestException" -> "OSError"
      [] c = "JSONDecodeError" -> "ValueError"
      [] c = "KeyError" -> "LookupError"
      [] OTHER -> "Exception"

RECURSIVE IsSubclass(_, _)
IsSubclass(c, h) ==
    \/ c = h
    \/ c # "Exception" /\ IsSubclass(Parent(c), h)

Handlers_NoCatchAll == <<"HTTPError", "ValueError">>

\* the except clauses of the page loop, each ending in break
Handlers == <<"HTTPError", "RequestException", "ValueError", "Exception">>

Caught(c) == \E i \in DOMAIN Handlers : IsSubclass(c, Handlers[i])

\* where control goes when exception class c is raised inside the try
AfterRaise(c) == IF Caught(c) THEN "returned" ELSE "raised"

\* ------------------------------------------------------ the fetcher
Min(a, b) == IF a < b THEN a ELSE b

\* "limit": min(batch_size, max_papers - len(papers))
Limit == Min(batch_size, max_papers - Len(papers))

\* the stub API's result set: one entry per position, titled by its position
WellFormedAt(p) ==
    IF p % 2 = 0
    THEN [title |-> Str("P" \o ToString(p)), abstract |-> Str("A1"),
          year |-> Num("2020"), url |-> Str("U1"), authors |-> List(<<Ann, Bob>>),
          references |-> List(<<CHOOSE r \in Refs : r.title = Str("R1")>>)]
    ELSE [title |-> Str("P" \o ToString(p)), abstract |-> Absent, year |-> Absent,
          url |-> Absent, authors |-> NoList, references |-> NoList]

\* an entry whose "authors" is null: the list comprehension raises TypeError
MalformedAt(p) == [WellFormedAt(p) EXCEPT !.authors = NullList]

ResultAt(p) == IF p = malformed_at THEN MalformedAt(p) ELSE WellFormedAt(p)

\* data["data"] of a page of n entries answering a request at offset off
PageAt(off, n) == [j \in 1..n |-> ResultAt(off + j - 1)]

\* if len(papers) >= max_papers: break   (leaves the loop over the entries)
ReachedMax(count, max) == count >= max

\* for entry in data["data"]: ... papers.append(paper) ...
\* [papers, exc] from entry i of the page on
RECURSIVE ProcessEntries(_, _, _, _)
ProcessEntries(acc, page, i, max) ==
    IF i > Len(page) THEN [papers |-> acc, exc |-> ""]
    ELSE LET r == BuildPaper(page[i])
         IN  IF r.exc # "" THEN [papers |-> acc, exc |-> r.exc]
             ELSE IF ReachedMax(Len(acc) + 1, max)
                  THEN [papers |-> Append(acc, r.paper), exc |-> ""]
             ELSE ProcessEntries(Append(acc, r.paper), page, i + 1, max)

ShortPage_OffByOne(n, size) == n + 1 < size

\* if len(data["data"]) < batch_size: break
ShortPage(n, size) == n < size

NextOffset_StepOne(off, size) == off + 1

\* the next value of range(0, max_papers, batch_size)
NextOffset(off, size) == off + size

FetchIdle ==
    /\ max_papers = 0 /\ batch_size = 1 /\ offset = 0 /\ malformed_at = -1
    /\ requests = <<>> /\ responses = <<>>
EntryIdle == entry = Null /\ built = [exc |-> "", paper |-> NoPaper]
SaveIdle ==
    /\ file = [exists |-> FALSE, rows |-> <<>>] /\ idx = 0
    /\ report = "none" /\ failed_at = ""

saveVars == <<file, idx, report, failed_at>>
entryVars == <<entry, built>>
fetchParams == <<max_papers, batch_size, malformed_at>>

\* state on entry to search_semantic_scholar
Init ==
    /\ max_papers \in 0..MaxPapers
    /\ batch_size \in 1..MaxBatch
    /\ malformed_at \in -1..MaxPapers
    /\ offset = 0
    /\ papers = <<>>
    /\ requests = <<>>
    /\ responses = <<>>
    /\ pc = "head"
    /\ EntryIdle
    /\ SaveIdle

\* loop head with a next offset: build params and send the GET
IssueRequest ==
    /\ pc = "head"
    /\ offset < max_papers
    /\ requests' = Append(requests,
                     [offset |-> offset, limit |-> Limit, acc |-> Len(papers)])
    /\ pc' = "waiting"
    /\ UNCHANGED <<fetchParams, offset, papers, responses, entryVars, saveVars>>

\* loop head with the range exhausted: return papers
RangeExhausted ==
    /\ pc = "head"
    /\ offset >= max_papers
    /\ pc' = "returned"
    /\ UNCHANGED <<fetchParams, offset, papers, requests, responses, entryVars,
                   saveVars>>

\* an exception of class c raised before any entry is read
FailPage(kind, c) ==
    /\ pc = "waiting"
    /\ responses' = Append(responses,
                      [kind |-> kind, n |-> 0, exc |-> c, before |-> papers,
                       kept |-> 0])
    /\ pc' = AfterRaise(c)
    /\ UNCHANGED <<fetchParams, offset, papers, requests, entryVars, saveVars>>

\* requests.get raises (connection failure, timeout)
TransportError == FailPage("transport", "ConnectionError")

\* response.raise_for_status() raises on a non-2xx status
HttpError == FailPage("http", "HTTPError")

\* response.json() raises on a body that is not JSON
JsonError == FailPage("json", "JSONDecodeError")

\* the body is JSON but no object:  "data" in data  raises
BodyNotObject == FailPage("malformed", "TypeError")

\* "data" missing or empty: the else branch, break
NoData ==
    /\ pc = "waiting"
    /\ responses' = Append(responses,
                      [kind |-> "nodata", n |-> 0, exc |-> "", before |-> papers,
                       kept |-> 0])
    /\ pc' = "returned"
    /\ UNCHANGED <<fetchParams, offset, papers, requests, entryVars, saveVars>>

\* a page of n >= 1 entries: convert and append them, then decide to go on
ReceivePage(n) ==
    /\ pc = "waiting"
    /\ LET r == ProcessEntries(papers, PageAt(offset, n), 1, max_papers)
       IN  /\ papers' = r.papers
           /\ responses' = Append(responses,
                      [kind |-> "data", n |-> n, exc |-> r.exc, before |-> papers,
                       kept |-> Len(r.papers) - Len(papers)])
           /\ IF r.exc # "" THEN pc' = AfterRaise(r.exc) /\ offset' = offset
              ELSE IF ShortPage(n, batch_size) THEN pc' = "returned" /\ offset' = offset
              ELSE pc' = "head" /\ offset' = NextOffset(offset, batch_size)
    /\ UNCHANGED <<fetchParams, requests, entryVars, saveVars>>

Next ==
    \/ IssueRequest
    \/ RangeExhausted
    \/ TransportError
    \/ HttpError
    \/ JsonError
    \/ BodyNotObject
    \/ NoData
    \/ \E n \in 1..MaxPageLen : ReceivePage(n)

Spec == Init /\ [][Next]_vars

\* ------------------------------------------- one entry, all input shapes
\* a page holding one entry drawn from Entries, about to be converted
InitEntry ==
    /\ entry \in Entries
    /\ built = [exc |-> "", paper |-> NoPaper]
    /\ papers = <<>>
    /\ pc = "entry"
    /\ FetchIdle
    /\ SaveIdle

\* the entry converts: papers.append(paper)
AppendPaper ==
    /\ pc = "entry"
    /\ BuildPaper(entry).exc = ""
    /\ built' = BuildPaper(entry)
    /\ papers' = Append(papers, BuildPaper(entry).paper)
    /\ pc' = "appended"
    /\ UNCHANGED <<fetchParams, offset, requests, responses, entry, saveVars>>

\* the conversion raises: nothing is appended, the except clause breaks
EntryRaises ==
    /\ pc = "entry"
    /\ BuildPaper(entry).exc # ""
    /\ built' = BuildPaper(entry)
    /\ pc' = AfterRaise(BuildPaper(entry).exc)
    /\ UNCHANGED <<fetchParams, offset, requests, responses, entry, papers,
                   saveVars>>

NextEntry == AppendPaper \/ EntryRaises

SpecEntry == InitEntry /\ [][NextEntry]_vars

\* ------------------------------------------------------- the exporter
\* headers = ["Title", "Authors", "Published", "Summary", "PDF URL", "References"]
HeaderRow == <<"Title", "Authors", "Published", "Summary", "PDF URL", "References">>

\* the text the csv writer puts in a cell: "" for None, str(value) otherwise
CsvCell(v) == IF v.tag = "null" THEN "" ELSE v.val

RowOf_Misplaced(paper) ==
    << CsvCell(paper.published),
       PyJoin(", ", Texts(paper.authors)),
       CsvCell(paper.title),
       CsvCell(paper.summary),
       CsvCell(paper.references),
       CsvCell(paper.pdf_url) >>

\* the dict passed to writer.writerow, in header order
RowOf(paper) ==
    << CsvCell(paper.title),
       PyJoin(", ", Texts(paper.authors)),
       CsvCell(paper.published),
       CsvCell(paper.summary),
       CsvCell(paper.pdf_url),
       CsvCell(paper.references) >>

\* the try block of save_papers_to_file covers open .. close, not makedirs
InTry(step) == step \in {"open", "header", "rows"}

\* records as the fetcher builds them from well-formed entries
SaveRecords ==
    {BuildPaper(WellFormedAt(p)).paper : p \in 0..2}
    \cup {BuildPaper([WellFormedAt(3) EXCEPT
                        !.authors = List(<<Ann, [name |-> Null]>>)]).paper}

\* what an earlier run left at file_path
StaleFile ==
    [exists |-> TRUE,
     rows |-> <<HeaderRow, RowOf(BuildPaper(WellFormedAt(4)).paper)>>]

\* state on entry to save_papers_to_file
InitSave ==
    /\ papers \in SeqsUpTo(SaveRecords, MaxRows)
    /\ file \in {[exists |-> FALSE, rows |-> <<>>], StaleFile}
    /\ idx = 0
    /\ report = "none"
    /\ failed_at = ""
    /\ pc = "makedirs"
    /\ FetchIdle
    /\ EntryIdle

fetchVars == <<fetchParams, offset, requests, responses>>

\* os.makedirs(folder_path, exist_ok=True) succeeds
MakedirsOk ==
    /\ pc = "makedirs"
    /\ pc' = "open"
    /\ UNCHANGED <<fetchVars, papers, entryVars, saveVars>>

\* open(file_path, mode="w") succeeds and truncates the file
OpenOk ==
    /\ pc = "open"
    /\ file' = [exists |-> TRUE, rows |-> <<>>]
    /\ pc' = "header"
    /\ UNCHANGED <<fetchVars, papers, entryVars, idx, report, failed_at>>

\* writer.writeheader()
WriteHeaderOk ==
    /\ pc = "header"
    /\ file' = [file EXCEPT !.rows = Append(@, HeaderRow)]
    /\ pc' = "rows"
    /\ UNCHANGED <<fetchVars, papers, entryVars, idx, report, failed_at>>

\* writer.writerow({...}) for the next paper
WriteRowOk ==
    /\ pc = "rows"
    /\ idx < Len(papers)
    /\ JoinExc(papers[idx + 1].authors) = ""
    /\ file' = [file EXCEPT !.rows = Append(@, RowOf(papers[idx + 1]))]
    /\ idx' = idx + 1
    /\ UNCHANGED <<fetchVars, papers, entryVars, pc, report, failed_at>>

\* the loop is over: the file is closed and "Saved ..." printed
Finish ==
    /\ pc = "rows"
    /\ idx = Len(papers)
    /\ report' = "saved"
    /\ pc' = "done"
    /\ UNCHANGED <<fetchVars, papers, entryVars, file, idx, failed_at>>

\* the current step raises an OSError (for a row also the TypeError of join):
\* inside the try it is caught and "Failed to save ..." printed, outside the
\* try it leaves the function
StepFails ==
    /\ pc \in {"makedirs", "open", "header", "rows"}
    /\ pc = "rows" => idx < Len(papers)
    /\ failed_at' = pc
    /\ IF InTry(pc) THEN pc' = "done" /\ report' = "failed"
       ELSE pc' = "raised" /\ report' = report
    /\ UNCHANGED <<fetchVars, papers, entryVars, file, idx>>

NextSave ==
    \/ MakedirsOk
    \/ OpenOk
    \/ WriteHeaderOk
    \/ WriteRowOk
    \/ Finish
    \/ StepFails

SpecSave == InitSave /\ [][NextSave]_vars

\* =====================================================================
\* Properties of search_semantic_scholar (specification Spec)
\* =====================================================================

\* responses that ended with an exception, and those that did not
Failed(r) == r.kind \in {"transport", "http", "json", "malformed"} \/ r.exc # ""
Answered(r) == r.kind \in {"data", "nodata"} /\ r.exc = ""

\* the records the entries 1..k of the page answering request i convert to
RecordsOf(i, k) ==
    [j \in 1..k |-> BuildPaper(PageAt(requests[i].offset, responses[i].n)[j]).paper]

\* C1: the list returned by search_semantic_scholar holds at most max_papers
\* records, whatever number of entries each page carries.
C1_AtMostMaxPapers == pc = "returned" => Len(papers) <= max_papers

\* C2 as stated: a page carrying fewer entries than batch_size has all its
\* entries accumulated, fetching stops and no further request is issued.
C2_ShortPageAllAccumulated ==
    \A i \in DOMAIN responses :
        (Answered(responses[i]) /\ responses[i].n < batch_size) =>
            /\ responses[i].kept = responses[i].n
            /\ pc = "returned"
            /\ Len(requests) = i

\* C2 as amended: after a page carrying fewer entries than batch_size fetching
\* stops and no further request is issued; the entries of that page are
\* accumulated in order, all of them when the page is well-formed and carries
\* no more entries than the limit requested for it, a leading part otherwise.
C2_ShortPageStops ==
    \A i \in DOMAIN responses :
        LET r == responses[i]
        IN  (r.kind \in {"data", "nodata"} /\ r.n < batch_size) =>
                /\ pc = "returned"
                /\ Len(requests) = i
                /\ r.kept <= r.n
                /\ papers = r.before \o RecordsOf(i, r.kept)
                /\ (r.exc = "" /\ r.n <= requests[i].limit) => r.kept = r.n

\* a second page, shorter than batch_size, was accumulated whole and ended the run
C2_Witness ==
    /\ Len(responses) = 2
    /\ Answered(responses[2])
    /\ responses[2].n >= 1
    /\ responses[2].n < batch_size
    /\ responses[2].kept = responses[2].n
    /\ Len(papers) = responses[1].n + responses[2].n
    /\ pc = "returned"

\* C3: a transport error, a non-2xx status or an unparsable or malformed body
\* on any page ends the run: no further request, no exception reaches the
\* caller, and the records accumulated so far are returned in order (none
\* when the first page fails).
C3_FailureReturnsPartial ==
    /\ pc # "raised"
    /\ \A i \in DOMAIN responses :
           LET r == responses[i]
           IN  Failed(r) =>
                   /\ pc = "returned"
                   /\ Len(requests) = i
                   /\ papers = r.before \o RecordsOf(i, r.kept)
                   /\ r.kind # "data" => papers = r.before
                   /\ (i = 1 /\ r.kind # "data") => papers = <<>>

\* the second page failed with an HTTP error and the first page's records are returned
C3_Witness ==
    /\ Len(responses) = 2
    /\ responses[2].kind = "http"
    /\ pc = "returned"
    /\ Len(papers) >= 2
    /\ papers = RecordsOf(1, responses[1].n)

\* C4: no page request is issued once the accumulated count has reached
\* max_papers.
C4_NoRequestAtMax == \A i \in DOMAIN requests : requests[i].acc < max_papers

\* every page so far carried at most as many entries as its request's limit
LimitHonoured ==
    \A j \in DOMAIN responses : responses[j].n <= requests[j].limit

\* C10: provided every page carries at most as many entries as its request's
\* limit, each request's offset equals the number of records accumulated when
\* it is issued, and the accumulated records are the API results at
\* positions 0, 1, 2, ... with none skipped or repeated.
C10_OffsetIsAccumulatedCount ==
    LimitHonoured =>
        /\ \A i \in DOMAIN requests : requests[i].offset = requests[i].acc
        /\ \A k \in DOMAIN papers : papers[k].title = Str("P" \o ToString(k - 1))

\* two pages were requested and answered within their limits, three records returned
C10_Witness ==
    /\ LimitHonoured
    /\ Len(responses) = 2
    /\ requests[2].offset > 0
    /\ responses[2].kept >= 1
    /\ Len(papers) >= 3
    /\ pc = "returned"

\* =====================================================================
\* Properties of the conversion of one entry (specification SpecEntry)
\* =====================================================================

\* C5: every record has its six fields present and non-null, whether the
\* entry's key is missing or present with a null value.
C5_NoNullField ==
    pc = "appended" =>
        /\ DOMAIN papers[1] =
               {"title", "summary", "authors", "published", "pdf_url", "references"}
        /\ \A f \in {"title", "summary", "published", "pdf_url", "references"} :
               papers[1][f].tag \in {"str", "int"}

\* the text a citation shows for a reference's title or year
C7_Shown(slot, placeholder) ==
    IF slot.tag = "absent" THEN placeholder
    ELSE IF slot.tag = "null" THEN "None" ELSE slot.val

\* author names separated by ", "
RECURSIVE C7_Authors(_, _)
C7_Authors(items, n) ==
    IF n = 0 THEN ""
    ELSE IF n = 1 THEN items[1].name.val
    ELSE C7_Authors(items, n - 1) \o ", " \o items[n].name.val

\* [i] authors, "title," year.
C7_Fragment(i, ref) ==
    "[" \o ToString(i) \o "] "
        \o C7_Authors(ref.authors.items, Len(ref.authors.items))
        \o ", \"" \o C7_Shown(ref.title, "No title")
        \o ",\" " \o C7_Shown(ref.year, "Unknown") \o "."

\* fragments 1..n separated by one space
RECURSIVE C7_Citations(_, _)
C7_Citations(refs, n) ==
    IF n = 1 THEN C7_Fragment(1, refs[1])
    ELSE C7_Citations(refs, n - 1) \o " " \o C7_Fragment(n, refs[n])

\* C7: a reference list of length N >= 1 yields the N fragments
\* '[i] authors, "title," year.' for i = 1..N in the list's order, separated
\* by one space; an empty or absent list yields 'No references available'.
C7_ReferencesFormat ==
    pc = "appended" =>
        LET refs == entry.references.items
        IN  IF Len(refs) = 0
            THEN papers[1].references = Str("No references available")
            ELSE papers[1].references = Str(C7_Citations(refs, Len(refs)))

\* an entry with two references, both with authors, title and year, was converted
C7_Witness ==
    /\ pc = "appended"
    /\ Len(entry.references.items) = 2
    /\ \A i \in 1..2 :
           /\ entry.references.items[i].title.tag = "str"
           /\ entry.references.items[i].year.tag = "int"
           /\ Len(entry.references.items[i].authors.items) >= 1
    /\ entry.references.items[1] # entry.references.items[2]

\* C9: a missing 'abstract', 'url' or 'year' key yields the placeholder
\* 'No abstract available', 'No URL available' or 'Unknown'; a key present
\* with a value yields that value unchanged.
C9_MissingFieldPolicy ==
    pc = "appended" =>
        /\ entry.abstract.tag = "absent" =>
               papers[1].summary = Str("No abstract available")
        /\ entry.url.tag = "absent" => papers[1].pdf_url = Str("No URL available")
        /\ entry.year.tag = "absent" => papers[1].published = Str("Unknown")
        /\ entry.abstract.tag \in {"str", "int"} => papers[1].summary = entry.abstract
        /\ entry.url.tag \in {"str", "int"} => papers[1].pdf_url = entry.url
        /\ entry.year.tag \in {"str", "int"} => papers[1].published = entry.year

\* an entry lacking 'abstract' and 'url' but carrying a year was converted
C9_Witness ==
    /\ pc = "appended"
    /\ entry.abstract.tag = "absent"
    /\ entry.url.tag = "absent"
    /\ entry.year.tag = "int"

\* =====================================================================
\* Properties of save_papers_to_file (specification SpecSave)
\* =====================================================================

\* C6: no exception leaves save_papers_to_file, whichever step fails
\* (creating the folder, opening the file, writing the header or a row).
C6_NoExceptionEscapes == pc # "raised"

\* rows 2..k+1 of the file are built from records 1..k, in order
C8_RowsMatch(k) ==
    \A i \in 1..k :
        /\ file.rows[i + 1][1] = papers[i].title.val
        /\ file.rows[i + 1][2] = PyJoin(", ", [a \in DOMAIN papers[i].authors |->
                                                   papers[i].authors[a].val])
        /\ file.rows[i + 1][3] = papers[i].published.val
        /\ file.rows[i + 1][5] = papers[i].pdf_url.val

\* C8: a successful call on K records leaves the header row followed by K
\* rows, row i built from record i; a failure while writing row j leaves the
\* header and the rows of the records before j, nothing of later records.
C8_RowsInInputOrder ==
    /\ (pc = "done" /\ report = "saved") =>
           /\ file.exists
           /\ Len(file.rows) = Len(papers) + 1
           /\ file.rows[1] = HeaderRow
           /\ C8_RowsMatch(Len(papers))
    /\ failed_at = "rows" =>
           /\ idx < Len(papers)
           /\ Len(file.rows) = idx + 1
           /\ file.rows[1] = HeaderRow
           /\ C8_RowsMatch(idx)

\* two different records were saved over a stale file
C8_Witness ==
    /\ pc = "done"
    /\ report = "saved"
    /\ Len(papers) = 2
    /\ papers[1] # papers[2]
    /\ Len(file.rows) = 3

====
